---- MODULE Spec2Model ----
(***************************************************************************)
(* Model of utils/visualization_networkx.py: visualize_micro_macro, the    *)
(* routine that draws a micro graph and its coarse-grained (macro) version *)
(* side by side, and of its nested helper rescale_weight.                  *)
(*                                                                         *)
(* Numbers are Python numbers.  Small integers are exact; every result of  *)
(* true division, and every float product, sum and difference, is rounded  *)
(* to nearest, ties to even, as IEEE 754 does.  The significand is         *)
(* Precision bits wide instead of 53 so that TLC can enumerate the inputs. *)
(* A number is <<m, e>>, standing for m * 2^e, with m odd (or <<0, 0>>).   *)
(***************************************************************************)
EXTENDS Integers, Sequences, FiniteSets

\* ------------------------------------------------------------- bounds

Precision == 4          \* bits of significand of a float
MaxWeight == 3          \* edge weights and rescale arguments are 0 .. MaxWeight
MaxSizeQ == 24          \* output sizes of the rescale harness are k/4, k <= MaxSizeQ
MaxFine == 4            \* G_micro has at most MaxFine nodes, the mapping as many rows

\* ------------------------------------------------------------- floats

RECURSIVE Pow2(_)
Pow2(k) == IF k <= 0 THEN 1 ELSE 2 * Pow2(k - 1)

RECURSIVE Canon(_, _)
Canon(m, e) ==
    IF m = 0 THEN <<0, 0>>
    ELSE IF m % 2 = 0 THEN Canon(m \div 2, e + 1)
    ELSE <<m, e>>

Num(x) == IF x[2] >= 0 THEN x[1] * Pow2(x[2]) ELSE x[1]
Den(x) == IF x[2] >= 0 THEN 1 ELSE Pow2(-x[2])

\* n / d * 2^e, n > 0, d > 0, rounded to Precision bits, ties to even
RECURSIVE FRoundPos(_, _, _)
FRoundPos(n, d, e) ==
    IF n >= d * Pow2(Precision) THEN FRoundPos(n, 2 * d, e + 1)
    ELSE IF n < d * Pow2(Precision - 1) THEN FRoundPos(2 * n, d, e - 1)
    ELSE LET q == n \div d
             r == n % d
             up == (2 * r > d) \/ (2 * r = d /\ q % 2 = 1)
         IN  Canon(IF up THEN q + 1 ELSE q, e)

FNeg(x) == <<-x[1], x[2]>>

\* the float nearest to the rational n / d (d # 0)
FRound(n, d) ==
    LET nn == IF d < 0 THEN -n ELSE n
        dd == IF d < 0 THEN -d ELSE d
    IN  IF nn = 0 THEN <<0, 0>>
        ELSE IF nn < 0 THEN FNeg(FRoundPos(-nn, dd, 0))
        ELSE FRoundPos(nn, dd, 0)

FromInt(i) == Canon(i, 0)
FAdd(x, y) == FRound(Num(x) * Den(y) + Num(y) * Den(x), Den(x) * Den(y))
FSub(x, y) == FRound(Num(x) * Den(y) - Num(y) * Den(x), Den(x) * Den(y))
FMul(x, y) == FRound(Num(x) * Num(y), Den(x) * Den(y))
FDiv(x, y) == FRound(Num(x) * Den(y), Den(x) * Num(y))
FLeq(x, y) == Num(x) * Den(y) <= Num(y) * Den(x)
FLess(x, y) == Num(x) * Den(y) < Num(y) * Den(x)
IsFloat(n, d) == Num(FRound(n, d)) * d = n * Den(FRound(n, d))

\* ------------------------------------------------------ rescale_weight

NoError == "none"

Ok(v) == [err |-> NoError, val |-> v]
Raise(e) == [err |-> e, val |-> <<0, 0>>]

\* float / float: Python raises ZeroDivisionError on a zero divisor
TrueDiv(x, y) == IF y = <<0, 0>> THEN Raise("ZeroDivisionError") ELSE Ok(FDiv(x, y))

\* a rescale_weight that interpolates downwards from max_size
rescale_weight_Reversed(weight, min_weight, max_weight, min_size, max_size) ==
    IF max_size = min_size THEN Ok(min_size)
    ELSE LET ratio == TrueDiv(FSub(weight, min_weight), FSub(max_weight, min_weight))
         IN  IF ratio.err # NoError THEN ratio
             ELSE Ok(FSub(max_size, FMul(ratio.val, FSub(max_size, min_size))))

rescale_weight(weight, min_weight, max_weight, min_size, max_size) ==
    IF max_size = min_size THEN Ok(min_size)
    ELSE LET ratio == TrueDiv(FSub(weight, min_weight), FSub(max_weight, min_weight))
         IN  IF ratio.err # NoError THEN ratio
             ELSE Ok(FAdd(min_size, FMul(ratio.val, FSub(max_size, min_size))))

\* ------------------------------------------------------- Python dicts
\* A dict is the sequence of its <<key, value>> items in insertion order.

Keys(d) == [i \in 1..Len(d) |-> d[i][1]]
KeySet(d) == {d[i][1] : i \in 1..Len(d)}
Has(d, k) == k \in KeySet(d)
Get(d, k) == d[CHOOSE i \in 1..Len(d) : d[i][1] = k][2]
Put(d, k, v) ==
    IF Has(d, k) THEN [i \in 1..Len(d) |-> IF d[i][1] = k THEN <<k, v>> ELSE d[i]]
    ELSE Append(d, <<k, v>>)

\* ------------------------------------------------ the mapping helpers
\* Called at lines 51 and 53; their bodies are not in the file.

RECURSIVE RowsToDict(_, _)
RowsToDict(rows, d) ==
    IF rows = <<>> THEN d
    ELSE RowsToDict(Tail(rows), Put(d, Head(rows)[1], Head(rows)[2]))

\* forward map: one entry per row, micro -> macro
get_micro2macro_dict_from_pd_df(df) == RowsToDict(df, <<>>)

RECURSIVE GroupByMacro(_, _)
GroupByMacro(items, d) ==
    IF items = <<>> THEN d
    ELSE LET micro == Head(items)[1]
             macro == Head(items)[2]
             sofar == IF Has(d, macro) THEN Get(d, macro) ELSE <<>>
         IN  GroupByMacro(Tail(items), Put(d, macro, Append(sofar, micro)))

\* an inverse map that files every micro node under the first macro node seen
get_macro2microlist_dict_FirstKey(micro2macro) ==
    IF micro2macro = <<>> THEN <<>>
    ELSE <<  <<micro2macro[1][2], [i \in 1..Len(micro2macro) |-> micro2macro[i][1]]>>  >>

\* inverse map: macro -> list of its micro nodes, in first-seen order
get_macro2microlist_dict_from_micro2macro_dict(micro2macro) ==
    GroupByMacro(micro2macro, <<>>)

\* -------------------------------------------------------------- inputs

MacroNodes == {"A", "B"}
EdgeWeights == {1, 2}

\* the weighted edges a graph on `nodes` may carry: each candidate edge absent
\* or present with one weight
EdgeLists(nodes, cand) ==
    LET on == {nodes[i] : i \in 1..Len(nodes)}
        here == {c \in {cand[i] : i \in 1..Len(cand)} : c[1] \in on /\ c[2] \in on}
        pick == [here -> EdgeWeights \cup {0}]
        SeqOf(f) ==
            LET one(c) == IF c \in here /\ f[c] # 0 THEN << <<c[1], c[2], f[c]>> >> ELSE <<>>
            IN  one(cand[1]) \o one(cand[2])
    IN  {SeqOf(f) : f \in pick}

MicroEdgeCandidates == << <<1, 2>>, <<3, 4>> >>
MacroEdgeCandidates == << <<"A", "B">>, <<"A", "A">> >>

\* a graph: its nodes and its weighted edges <<u, v, weight>>, each in
\* iteration order
GraphsOn(nodes, cand) == {[nodes |-> nodes, edges |-> es] : es \in EdgeLists(nodes, cand)}

MicroGraphs == UNION {GraphsOn([i \in 1..n |-> i], MicroEdgeCandidates) : n \in 0..MaxFine}

MacroGraphs ==
    UNION {GraphsOn(ns, MacroEdgeCandidates) : ns \in {<<>>, <<"A">>, <<"B">>, <<"A", "B">>}}

\* the mapping dataframe: one row <<micro, macro>> per micro node 1 .. k
Mappings ==
    UNION {{[i \in 1..k |-> <<i, f[i]>>] : f \in [1..k -> MacroNodes]} : k \in 0..MaxFine}

\* (min_ns, max_ns): integers, as the signature's defaults are
NodeSizes == {<<1, 1>>, <<1, 3>>}
\* (min_lw, max_lw): floats; 3/2 = <<3, -1>>, 6 = <<3, 1>>
LineWidths == {<< <<3, -1>>, <<3, -1>> >>, << <<3, -1>>, <<3, 1>> >>}

\* the node colour nc, and entry i of the palette split macro_colors
nc == <<"nc", 0>>
PaletteEntry(i) == <<"macro_colors", i>>

\* --------------------------------------------------------------- state

VARIABLES
    G_micro, mapping, G_macro, min_ns, max_ns, min_lw, max_lw, all_colorful,
    pc, err, raised_at,
    micro2macro_dict, macro2microlist_dict, pos_micro, pos_macro,
    macro_colors, macro_colors_dict, micro_colors_dict, max_weight_macro,
    ax0_nodes, ax0_edges, ax1_nodes, ax1_edges, drawn,
    rs_args, rs_ret

inputs == <<G_micro, mapping, G_macro, min_ns, max_ns, min_lw, max_lw, all_colorful>>
exc == <<err, raised_at>>
maps == <<micro2macro_dict, macro2microlist_dict>>
layout == <<pos_micro, pos_macro>>
colors == <<macro_colors, macro_colors_dict, micro_colors_dict>>
sizes == <<max_weight_macro>>
canvas == <<ax0_nodes, ax0_edges, ax1_nodes, ax1_edges, drawn>>
harness == <<rs_args, rs_ret>>
vars == <<inputs, pc, exc, maps, layout, colors, sizes, sizes, canvas, harness>>

Idle == <<"idle">>

Locals0 ==
    /\ err = NoError
    /\ raised_at = "nowhere"
    /\ micro2macro_dict = <<>>
    /\ macro2microlist_dict = <<>>
    /\ pos_micro = <<>>
    /\ pos_macro = <<>>
    /\ macro_colors = 0
    /\ macro_colors_dict = <<>>
    /\ micro_colors_dict = <<>>
    /\ max_weight_macro = 0
    /\ ax0_nodes = {}
    /\ ax0_edges = <<>>
    /\ ax1_nodes = {}
    /\ ax1_edges = <<>>
    /\ drawn = {}

Init ==
    /\ G_micro \in MicroGraphs
    /\ mapping \in Mappings
    /\ G_macro \in MacroGraphs
    /\ \E ns \in NodeSizes : min_ns = ns[1] /\ max_ns = ns[2]
    /\ \E lw \in LineWidths : min_lw = lw[1] /\ max_lw = lw[2]
    /\ all_colorful \in BOOLEAN
    /\ pc = "maps"
    /\ Locals0
    /\ rs_args = Idle
    /\ rs_ret = Idle

\* ------------------------------------------- visualize_micro_macro

\* an exception leaves the function: nothing after the raising line runs
Fail(e) == pc' = "raised" /\ err' = e /\ raised_at' = pc

\* lines 50-53: the forward map and its inverse
GetMaps ==
    /\ pc = "maps"
    /\ micro2macro_dict' = get_micro2macro_dict_from_pd_df(mapping)
    /\ macro2microlist_dict' =
           get_macro2microlist_dict_from_micro2macro_dict(
               get_micro2macro_dict_from_pd_df(mapping))
    /\ pc' = "layout"
    /\ UNCHANGED <<inputs, exc, layout, colors, sizes, canvas, harness>>

\* line 56: spring_layout gives every node of G_micro a position.  The
\* coordinates are the layout library's; the model keeps the keys, in order.
SpringLayout ==
    /\ pc = "layout"
    /\ pos_micro' = G_micro.nodes
    /\ pc' = "pos_macro"
    /\ UNCHANGED <<inputs, exc, maps, pos_macro, colors, sizes, canvas, harness>>

Range(s) == {s[i] : i \in 1..Len(s)}

\* the micro nodes listed in the inverse map
Members(d) == UNION {{d[i][2][j] : j \in 1..Len(d[i][2])} : i \in 1..Len(d)}

\* lines 59-61: one centroid per key of the inverse map, in its order;
\* pos_micro[micro_node] raises KeyError for a member that has no position
PosMacro ==
    /\ pc = "pos_macro"
    /\ IF Members(macro2microlist_dict) \subseteq Range(pos_micro)
       THEN /\ pos_macro' = Keys(macro2microlist_dict)
            /\ pc' = "macro_colors"
            /\ UNCHANGED exc
       ELSE /\ Fail("KeyError")
            /\ pos_macro' = pos_macro
    /\ UNCHANGED <<inputs, maps, pos_micro, colors, sizes, canvas, harness>>

\* a count of all the macro nodes, whatever their number of micro nodes
number_of_big_macro_nodes_CountsAll(d) == Len(d)

\* line 70: the macro nodes that combine several micro nodes
number_of_big_macro_nodes(d) ==
    Cardinality({i \in 1..Len(d) : Len(d[i][2]) > 1})

\* an all-colourful split with one entry per key of pos_macro
PaletteSize_PerKey(colorful, G, keys, d) ==
    IF colorful THEN Len(keys) ELSE number_of_big_macro_nodes(d)

\* lines 65 and 71: the number of entries the palette is split into
PaletteSize(colorful, G, keys, d) ==
    IF colorful THEN Len(G.nodes) ELSE number_of_big_macro_nodes(d)

\* lines 67-68 and 73-77: the index into macro_colors used for the i-th key
ColorIndex(colorful, d, keys, i) ==
    IF colorful THEN i - 1
    ELSE Cardinality({j \in 1..(i - 1) : Len(Get(d, keys[j])) > 1})

\* an assignment that gives every macro node a palette entry
MacroColorOf_AlwaysPalette(colorful, d, keys, i) ==
    PaletteEntry(ColorIndex(colorful, d, keys, i))

\* lines 68, 76 and 79: the colour of the i-th key
MacroColorOf(colorful, d, keys, i) ==
    IF colorful \/ Len(Get(d, keys[i])) > 1
    THEN PaletteEntry(ColorIndex(colorful, d, keys, i))
    ELSE nc

\* the keys whose colour is read from macro_colors
Indexed(colorful, d, keys) ==
    {i \in 1..Len(keys) : colorful \/ Len(Get(d, keys[i])) > 1}

\* lines 63-79: macro_colors[i] raises IndexError past the end of the split
MacroColors ==
    /\ pc = "macro_colors"
    /\ LET n == PaletteSize(all_colorful, G_macro, pos_macro, macro2microlist_dict)
           bad == {i \in Indexed(all_colorful, macro2microlist_dict, pos_macro) :
                     ColorIndex(all_colorful, macro2microlist_dict, pos_macro, i) >= n}
           \* the keys coloured before the first failing index
           upto == IF bad = {} THEN Len(pos_macro)
                   ELSE (CHOOSE i \in bad : \A j \in bad : i <= j) - 1
       IN  /\ macro_colors' = n
           /\ macro_colors_dict' =
                  [i \in 1..upto |->
                      <<pos_macro[i],
                        MacroColorOf(all_colorful, macro2microlist_dict, pos_macro, i)>>]
           /\ IF bad = {} THEN pc' = "micro_colors" /\ UNCHANGED exc
              ELSE Fail("IndexError")
    /\ UNCHANGED <<inputs, maps, layout, micro_colors_dict, sizes, canvas, harness>>

\* a micro node coloured with the first macro node's colour
MicroColorOf_FirstMacro(m2m, mcd, micro_node) == mcd[1][2]

\* line 84: the colour a micro node inherits
MicroColorOf(m2m, mcd, micro_node) == Get(mcd, Get(m2m, micro_node))

\* lines 81-84: micro2macro_dict[micro_node] raises KeyError for an unmapped
\* node of G_micro
MicroColors ==
    /\ pc = "micro_colors"
    /\ LET bad == {i \in 1..Len(pos_micro) : ~Has(micro2macro_dict, pos_micro[i])}
           upto == IF bad = {} THEN Len(pos_micro)
                   ELSE (CHOOSE i \in bad : \A j \in bad : i <= j) - 1
       IN  /\ micro_colors_dict' =
                  [i \in 1..upto |->
                      <<pos_micro[i],
                        MicroColorOf(micro2macro_dict, macro_colors_dict, pos_micro[i])>>]
           /\ IF bad = {} THEN pc' = "draw_micro" /\ UNCHANGED exc
              ELSE Fail("KeyError")
    /\ UNCHANGED <<inputs, maps, layout, macro_colors, macro_colors_dict, sizes, canvas, harness>>

\* lines 88-94: the micro panel's nodes, all of size min_ns
DrawMicro ==
    /\ pc = "draw_micro"
    /\ ax0_nodes' = {[node |-> G_micro.nodes[i],
                      size |-> FromInt(min_ns),
                      color |-> Get(micro_colors_dict, G_micro.nodes[i])] :
                        i \in 1..Len(G_micro.nodes)}
    /\ drawn' = drawn \cup {"micro nodes"}
    /\ pc' = "micro_edges"
    /\ UNCHANGED <<inputs, exc, maps, layout, colors, ax0_edges, ax1_nodes, ax1_edges,
                   sizes, harness>>

\* lines 96-97 and 147-148: the values the weight range starts from
MinWeightStart == 1000000000
MaxWeightStart == -1000000000

\* lines 96-100 and 147-151: the least and the greatest edge weight
RECURSIVE MinWeightOf(_, _)
MinWeightOf(edges, sofar) ==
    IF edges = <<>> THEN sofar
    ELSE MinWeightOf(Tail(edges), IF Head(edges)[3] < sofar THEN Head(edges)[3] ELSE sofar)

RECURSIVE MaxWeightOf(_, _)
MaxWeightOf(edges, sofar) ==
    IF edges = <<>> THEN sofar
    ELSE MaxWeightOf(Tail(edges), IF Head(edges)[3] > sofar THEN Head(edges)[3] ELSE sofar)

\* lines 114-120 and 165-171: the width of every edge, by rescale_weight with
\* the range of the graph's weights and (min_lw, max_lw)
EdgeWidths(G, lo, hi) ==
    [i \in 1..Len(G.edges) |->
        rescale_weight(FromInt(G.edges[i][3]),
                       FromInt(MinWeightOf(G.edges, MinWeightStart)),
                       FromInt(MaxWeightOf(G.edges, MaxWeightStart)),
                       lo, hi)]

\* the calls that return, up to the first that raises
Returned(rs) ==
    LET bad == {i \in 1..Len(rs) : rs[i].err # NoError}
        upto == IF bad = {} THEN Len(rs) ELSE (CHOOSE i \in bad : \A j \in bad : i <= j) - 1
    IN  [i \in 1..upto |-> rs[i].val]

FirstError(rs) ==
    LET bad == {i \in 1..Len(rs) : rs[i].err # NoError}
    IN  IF bad = {} THEN NoError ELSE rs[CHOOSE i \in bad : \A j \in bad : i <= j].err

\* lines 95-120: the micro panel's edges, one draw call per edge
MicroEdges ==
    /\ pc = "micro_edges"
    /\ LET rs == EdgeWidths(G_micro, min_lw, max_lw)
       IN  /\ ax0_edges' = [i \in 1..Len(Returned(rs)) |->
                               [edge |-> G_micro.edges[i], width |-> Returned(rs)[i]]]
           /\ IF FirstError(rs) = NoError
              THEN pc' = "macro_range" /\ UNCHANGED exc /\ drawn' = drawn \cup {"micro edges"}
              ELSE Fail(FirstError(rs)) /\ drawn' = drawn
    /\ UNCHANGED <<inputs, maps, layout, colors, ax0_nodes, ax1_nodes, ax1_edges, sizes, harness>>

\* line 124: the least member count the node sizes are scaled from
min_weight_macro == 1

RECURSIVE MaxLen(_, _)
MaxLen(d, sofar) ==
    IF d = <<>> THEN sofar
    ELSE MaxLen(Tail(d), IF Len(Head(d)[2]) > sofar THEN Len(Head(d)[2]) ELSE sofar)

\* lines 124-125: max() of an empty list raises ValueError
MacroRange ==
    /\ pc = "macro_range"
    /\ IF macro2microlist_dict = <<>>
       THEN Fail("ValueError") /\ max_weight_macro' = max_weight_macro
       ELSE /\ max_weight_macro' = MaxLen(macro2microlist_dict, 0)
            /\ pc' = "draw_macro"
            /\ UNCHANGED exc
    /\ UNCHANGED <<inputs, maps, layout, colors, canvas, harness>>

RECURSIVE MinLen(_, _)
MinLen(d, sofar) ==
    IF d = <<>> THEN sofar
    ELSE MinLen(Tail(d), IF Len(Head(d)[2]) < sofar THEN Len(Head(d)[2]) ELSE sofar)

\* a node size scaled from the least member count present, not from 1
NodeSize_FromLeastCount(d, node, hi_count, lo, hi) ==
    rescale_weight(FromInt(Len(Get(d, node))), FromInt(MinLen(d, hi_count)), FromInt(hi_count),
                   FromInt(lo), FromInt(hi))

\* lines 126-136 and 141: the size of a macro node, by rescale_weight with the
\* range (1, max_weight_macro) and (min_ns, max_ns)
NodeSize(d, node, hi_count, lo, hi) ==
    rescale_weight(FromInt(Len(Get(d, node))), FromInt(min_weight_macro), FromInt(hi_count),
                   FromInt(lo), FromInt(hi))

\* line 141: macro2microlist_dict[node] raises KeyError for a node of G_macro
\* that no micro node maps to
NodeSizes141(G, d, hi_count, lo, hi) ==
    [i \in 1..Len(G.nodes) |->
        IF Has(d, G.nodes[i]) THEN NodeSize(d, G.nodes[i], hi_count, lo, hi)
        ELSE Raise("KeyError")]

\* lines 138-144: the macro panel's nodes
DrawMacro ==
    /\ pc = "draw_macro"
    /\ LET rs == NodeSizes141(G_macro, macro2microlist_dict, max_weight_macro, min_ns, max_ns)
       IN  IF FirstError(rs) = NoError
           THEN /\ ax1_nodes' = {[node |-> G_macro.nodes[i],
                                  size |-> rs[i].val,
                                  color |-> Get(macro_colors_dict, G_macro.nodes[i])] :
                                    i \in 1..Len(G_macro.nodes)}
                /\ drawn' = drawn \cup {"macro nodes"}
                /\ pc' = "macro_edges"
                /\ UNCHANGED exc
           ELSE /\ Fail(FirstError(rs))
                /\ UNCHANGED <<ax1_nodes, drawn>>
    /\ UNCHANGED <<inputs, maps, layout, colors, sizes, ax0_nodes, ax0_edges, ax1_edges,
                   harness>>

\* lines 146-171: the macro panel's edges, one draw call per edge
MacroEdges ==
    /\ pc = "macro_edges"
    /\ LET rs == EdgeWidths(G_macro, min_lw, max_lw)
       IN  /\ ax1_edges' = [i \in 1..Len(Returned(rs)) |->
                               [edge |-> G_macro.edges[i], width |-> Returned(rs)[i]]]
           /\ IF FirstError(rs) = NoError
              THEN pc' = "show" /\ UNCHANGED exc /\ drawn' = drawn \cup {"macro edges"}
              ELSE Fail(FirstError(rs)) /\ drawn' = drawn
    /\ UNCHANGED <<inputs, maps, layout, colors, sizes, ax0_nodes, ax0_edges, ax1_nodes,
                   harness>>

\* lines 173-176: the titles, and the figure is shown
Show ==
    /\ pc = "show"
    /\ pc' = "done"
    /\ drawn' = drawn \cup {"shown"}
    /\ UNCHANGED <<inputs, exc, maps, layout, colors, sizes, ax0_nodes, ax0_edges,
                   ax1_nodes, ax1_edges, harness>>

Next ==
    \/ GetMaps
    \/ SpringLayout
    \/ PosMacro
    \/ MacroColors
    \/ MicroColors
    \/ DrawMicro
    \/ MicroEdges
    \/ MacroRange
    \/ DrawMacro
    \/ MacroEdges
    \/ Show

Spec == Init /\ [][Next]_vars

\* ------------------------------------- rescale_weight on its own
\* The function is called with a range of weights, a range of sizes and two
\* weights, one call per step.

\* the floats k/4, k <= MaxSizeQ
OutputSizes == {FRound(k, 4) : k \in {j \in 0..MaxSizeQ : IsFloat(j, 4)}}

RescaleArgs ==
    {[weights |-> <<w1, w2>>, min_weight |-> lo, max_weight |-> hi,
      min_size |-> a, max_size |-> b] :
        w1 \in 0..MaxWeight, w2 \in 0..MaxWeight, lo \in 0..MaxWeight, hi \in 0..MaxWeight,
        a \in OutputSizes, b \in OutputSizes}

InitRescale ==
    /\ rs_args \in {a \in RescaleArgs :
                      a.weights[1] <= a.weights[2] /\ a.min_weight <= a.max_weight}
    /\ rs_ret = <<>>
    /\ G_micro = [nodes |-> <<>>, edges |-> <<>>]
    /\ mapping = <<>>
    /\ G_macro = [nodes |-> <<>>, edges |-> <<>>]
    /\ min_ns = 1 /\ max_ns = 1
    /\ min_lw = <<1, 0>> /\ max_lw = <<1, 0>>
    /\ all_colorful = TRUE
    /\ pc = "rescale"
    /\ Locals0

CallRescale ==
    /\ pc = "rescale"
    /\ Len(rs_ret) < Len(rs_args.weights)
    /\ rs_ret' = Append(rs_ret,
                        rescale_weight(FromInt(rs_args.weights[Len(rs_ret) + 1]),
                                       FromInt(rs_args.min_weight),
                                       FromInt(rs_args.max_weight),
                                       rs_args.min_size, rs_args.max_size))
    /\ UNCHANGED <<inputs, pc, exc, maps, layout, colors, sizes, canvas, rs_args>>

NextRescale == CallRescale

SpecRescale == InitRescale /\ [][NextRescale]_vars

\* ============================================================== claims

\* ---- rescale_weight (checked under SpecRescale)

Called(i) == i <= Len(rs_ret)
ProperRange == rs_args.min_weight < rs_args.max_weight
OrderedSizes == FLeq(rs_args.min_size, rs_args.max_size)

\* C1: whatever the weight and the output range (lo, hi), rescale_weight with
\* min_weight = max_weight returns lo and raises nothing.
C1_DegenerateRangeReturnsMin ==
    \A i \in 1..Len(rs_ret) :
        rs_args.min_weight = rs_args.max_weight => rs_ret[i] = Ok(rs_args.min_size)

\* the floats next to a positive float x
RECURSIVE FullMantissa(_, _)
FullMantissa(m, e) ==
    IF m < Pow2(Precision - 1) THEN FullMantissa(2 * m, e - 1) ELSE <<m, e>>
FSucc(x) ==
    LET f == FullMantissa(x[1], x[2]) IN Canon(f[1] + 1, f[2])
FPred(x) ==
    LET f == FullMantissa(x[1], x[2])
    IN  IF f[1] = Pow2(Precision - 1) THEN Canon(Pow2(Precision) - 1, f[2] - 1)
        ELSE Canon(f[1] - 1, f[2])
Adjacent(r, x) == r = x \/ (x[1] > 0 /\ (r = FSucc(x) \/ r = FPred(x)))

\* max_size - min_size is a float, so the subtraction does not round
ExactSpan ==
    IsFloat(Num(rs_args.max_size) * Den(rs_args.min_size)
              - Num(rs_args.min_size) * Den(rs_args.max_size),
            Den(rs_args.max_size) * Den(rs_args.min_size))

\* C2 as stated: with min_weight < max_weight and min_size <= max_size,
\* rescale_weight(min_weight) is min_size, rescale_weight(max_weight) is
\* max_size, and a greater weight never gets a smaller size.
C2_EndpointsExactAndMonotone ==
    (ProperRange /\ OrderedSizes) =>
        /\ \A i \in 1..Len(rs_ret) :
              /\ rs_ret[i].err = NoError
              /\ rs_args.weights[i] = rs_args.min_weight => rs_ret[i].val = rs_args.min_size
              /\ rs_args.weights[i] = rs_args.max_weight => rs_ret[i].val = rs_args.max_size
        /\ Called(2) => FLeq(rs_ret[1].val, rs_ret[2].val)

\* C2 amended: with min_weight < max_weight and 0 <= min_size <= max_size,
\* rescale_weight(min_weight) is min_size, a greater weight never gets a smaller
\* size, and rescale_weight(max_weight) is max_size when max_size - min_size is
\* computed without rounding, and a float next to max_size otherwise.
C2_EndpointsRoundedAndMonotone ==
    (ProperRange /\ OrderedSizes) =>
        /\ \A i \in 1..Len(rs_ret) :
              /\ rs_ret[i].err = NoError
              /\ rs_args.weights[i] = rs_args.min_weight => rs_ret[i].val = rs_args.min_size
              /\ rs_args.weights[i] = rs_args.max_weight =>
                    /\ Adjacent(rs_ret[i].val, rs_args.max_size)
                    /\ ExactSpan => rs_ret[i].val = rs_args.max_size
        /\ Called(2) => FLeq(rs_ret[1].val, rs_ret[2].val)

\* both ends of a proper range have been rescaled, and the upper end has come
\* out next to max_size because max_size - min_size was rounded
C2_Witness ==
    /\ ProperRange
    /\ FLess(rs_args.min_size, rs_args.max_size)
    /\ Called(2)
    /\ rs_args.weights = <<rs_args.min_weight, rs_args.max_weight>>
    /\ rs_ret[1] = Ok(rs_args.min_size)
    /\ rs_ret[2].err = NoError
    /\ rs_ret[2].val # rs_args.max_size
    /\ ~ExactSpan

\* ---- visualize_micro_macro (checked under Spec)

Started(stage) ==
    LET order == <<"maps", "layout", "pos_macro", "macro_colors", "micro_colors",
                   "draw_micro", "micro_edges", "macro_range", "draw_macro",
                   "macro_edges", "show", "done">>
        At(x) == CHOOSE i \in 1..Len(order) : order[i] = x
    IN  At(IF pc = "raised" THEN raised_at ELSE pc) >= At(stage)

\* the stage has run to its end
Passed(stage) == Started(stage) /\ pc # stage /\ raised_at # stage

MappedMicro == {mapping[i][1] : i \in 1..Len(mapping)}
MappedMacro == {mapping[i][2] : i \in 1..Len(mapping)}
MacroOf(f) == mapping[CHOOSE i \in 1..Len(mapping) : mapping[i][1] = f][2]
MembersOf(c) == {mapping[i][1] : i \in {j \in 1..Len(mapping) : mapping[j][2] = c}}

\* C3: once both maps are built, every micro node of the mapping is in the
\* inverse map's list of the macro node the forward map gives it, and in the
\* list of no other macro node.
C3_MappingRoundTrip ==
    Passed("maps") =>
        /\ KeySet(micro2macro_dict) = MappedMicro
        /\ \A f \in MappedMicro :
              /\ Get(micro2macro_dict, f) = MacroOf(f)
              /\ Has(macro2microlist_dict, MacroOf(f))
              /\ \A c \in KeySet(macro2microlist_dict) :
                    f \in Range(Get(macro2microlist_dict, c)) <=> c = MacroOf(f)

\* four micro nodes have been filed under two macro nodes
C3_Witness ==
    /\ Passed("maps")
    /\ Len(micro2macro_dict) = 4
    /\ Len(macro2microlist_dict) = 2
    /\ \E i \in 1..2 : Len(macro2microlist_dict[i][2]) = 3

\* C4: in both colouring modes every micro node that is given a colour is given
\* the colour of the macro node it maps to, every node of G_micro is given one
\* when the colouring ends, and the micro panel is drawn with these colours; so
\* two micro nodes of one macro node have one colour.
C4_ColorConsistency ==
    /\ \A i \in 1..Len(micro_colors_dict) :
          micro_colors_dict[i][2] = Get(macro_colors_dict, MacroOf(micro_colors_dict[i][1]))
    /\ Passed("micro_colors") =>
          /\ KeySet(micro_colors_dict) = Range(G_micro.nodes)
          /\ \A f, g \in Range(G_micro.nodes) :
                MacroOf(f) = MacroOf(g) => Get(micro_colors_dict, f) = Get(micro_colors_dict, g)
    /\ Passed("draw_micro") =>
          \A f \in Range(G_micro.nodes) :
              \E n \in ax0_nodes :
                  n.node = f /\ n.color = Get(macro_colors_dict, MacroOf(f))

\* a selective colouring with a palette colour and the node colour, drawn
C4_Witness ==
    /\ ~all_colorful
    /\ Passed("draw_micro")
    /\ \E f, g \in Range(G_micro.nodes) :
          /\ f # g
          /\ MacroOf(f) = MacroOf(g)
          /\ Get(micro_colors_dict, f) = PaletteEntry(0)
    /\ \E f \in Range(G_micro.nodes) : Get(micro_colors_dict, f) = nc

BigMacro == {c \in MappedMacro : Cardinality(MembersOf(c)) > 1}

Malformed ==
    \/ ~(Range(G_micro.nodes) \subseteq MappedMicro)
    \/ ~(MappedMacro \subseteq Range(G_macro.nodes))

\* C6: a mapping that misses a node of G_micro, or names a macro node that
\* G_macro does not have, ends the call with an inconsistent-mapping error
\* before anything is drawn, and the call never ends normally.
C6_MalformedMappingFailsFast ==
    Malformed =>
        /\ pc # "done"
        /\ drawn = {}
        /\ pc = "raised" => err = "InconsistentMappingError"

AllEmpty ==
    /\ G_micro = [nodes |-> <<>>, edges |-> <<>>]
    /\ G_macro = [nodes |-> <<>>, edges |-> <<>>]
    /\ mapping = <<>>

\* C7: with empty graphs and an empty mapping the call raises nothing and
\* ends with both panels drawn.
C7_EmptyGraphsRender ==
    AllEmpty =>
        /\ pc # "raised"
        /\ pc = "done" => {"micro nodes", "macro nodes"} \subseteq drawn

\* the end-to-end scenario: 1 -> A, 2 -> A, 3 -> B, 4 -> B
Scenario ==
    /\ mapping = << <<1, "A">>, <<2, "A">>, <<3, "B">>, <<4, "B">> >>
    /\ G_micro.nodes = <<1, 2, 3, 4>>
    /\ G_macro.nodes = <<"A", "B">>
    /\ min_ns # max_ns

\* C8 as stated: in the scenario both macro nodes are drawn with size min_ns.
C8_ScenarioSizesAreMin ==
    (Scenario /\ Passed("draw_macro")) =>
        \A n \in ax1_nodes : n.size = FromInt(min_ns)

\* C8 amended: in the scenario the macro nodes' sizes are computed without an
\* error and both macro nodes are drawn with the same size, max_ns.
C8_ScenarioSizesAreMax ==
    Scenario =>
        /\ raised_at # "draw_macro"
        /\ Passed("draw_macro") =>
              /\ {n.node : n \in ax1_nodes} = {"A", "B"}
              /\ \A n \in ax1_nodes : n.size = FromInt(max_ns)

C8_Witness ==
    /\ Scenario
    /\ Passed("draw_macro")
    /\ Cardinality(ax1_nodes) = 2
    /\ G_micro.edges = << <<1, 2, 1>>, <<3, 4, 2>> >>

\* C9: in selective mode, when no macro node has several micro nodes, colouring
\* the macro nodes raises nothing, colouring the micro nodes raises nothing
\* when every node of G_micro is mapped, the palette split is empty, and every
\* colour given is the node colour nc.
C9_NoMergesAllNeutral ==
    (~all_colorful /\ BigMacro = {}) =>
        /\ raised_at # "macro_colors"
        /\ Range(G_micro.nodes) \subseteq MappedMicro => raised_at # "micro_colors"
        /\ Passed("macro_colors") =>
              /\ macro_colors = 0
              /\ KeySet(macro_colors_dict) = MappedMacro
        /\ \A i \in 1..Len(macro_colors_dict) : macro_colors_dict[i][2] = nc
        /\ Passed("micro_colors") => KeySet(micro_colors_dict) = Range(G_micro.nodes)
        /\ \A i \in 1..Len(micro_colors_dict) : micro_colors_dict[i][2] = nc

C9_Witness ==
    /\ ~all_colorful
    /\ BigMacro = {}
    /\ Passed("micro_colors")
    /\ Len(macro_colors_dict) = 2
    /\ Len(micro_colors_dict) = 2

\* C10: in all-colourful mode the palette is split into as many entries as
\* G_macro has nodes, every colour given to a macro node is an entry of the
\* split, two macro nodes never share an entry, and when the macro panel is
\* drawn every node of G_macro has its entry.
C10_AllColorfulPalette ==
    all_colorful =>
        /\ Passed("macro_colors") \/ raised_at = "macro_colors" =>
              macro_colors = Len(G_macro.nodes)
        /\ \A i \in 1..Len(macro_colors_dict) :
              \E k \in 0..(Len(G_macro.nodes) - 1) : macro_colors_dict[i][2] = PaletteEntry(k)
        /\ \A i, j \in 1..Len(macro_colors_dict) :
              i # j => macro_colors_dict[i][2] # macro_colors_dict[j][2]
        /\ Passed("draw_macro") =>
              \A c \in Range(G_macro.nodes) :
                  /\ Has(macro_colors_dict, c)
                  /\ \E n \in ax1_nodes : n.node = c /\ n.color = Get(macro_colors_dict, c)

C10_Witness ==
    /\ all_colorful
    /\ Passed("draw_macro")
    /\ Len(G_macro.nodes) = 2
    /\ {n.color : n \in ax1_nodes} = {PaletteEntry(0), PaletteEntry(1)}

====
